---------------------------- MODULE Spec2Model ----------------------------
(***************************************************************************)
(* Model of nvme-huawei.py, the Hi-Si NVME image reader.                   *)
(*                                                                         *)
(* Bytes are the integers 0..255 and a bytes object is a sequence of them. *)
(* A Python str is a sequence of code points, except for the hex strings   *)
(* (MAGIC, the keys of VALUES), which are sequences of one-character       *)
(* strings so that bytes.fromhex is computed digit by digit.  Python       *)
(* offsets are zero-based; sequences here are one-based, so data[i + 1] is *)
(* the byte at offset i.                                                   *)
(*                                                                         *)
(* A call that can raise returns [exc |-> "none", val |-> v] or            *)
(* [exc |-> <exception>, val |-> <<>>].                                     *)
(***************************************************************************)
EXTENDS Integers, Sequences, FiniteSets, TLC

VARIABLES
    argv,       \* sys.argv, argv[1] being the program name (sys.argv[0])
    disk,       \* the bytes of the image file on disk
    pc,         \* position of main(): start, open, header, scan, done, exit, failed
    nvme,       \* _NVME_, the image path (Unbound while not assigned)
    data,       \* _DATA_, the image buffer read by main()
    idx,        \* position of the for loop over VALUES.keys()
    stdout,     \* the lines printed so far
    err,        \* the uncaught exception that ended the run ("none" if none)
    seeks,      \* the positions parse_string passed to fp.seek, one per entry
    gapIn,      \* argument of a direct call of get_gap_num
    gapOut      \* its result (NoCall before the call)

vars == <<argv, disk, pc, nvme, data, idx, stdout, err, seeks, gapIn, gapOut>>

-----------------------------------------------------------------------------
(* Program constants                                                       *)

MAX_GAP == 20

STRING_LENGHT == 45

\* the 17 bytes read back and the bytes literal they are compared with
HDR_LEN == 17

HDR_LITERAL == <<72,105,115,105,45,78,86,45,80,97,114,116,105,116,105,111,110>>

MAGIC == <<"4","8","6","9","7","3","6","9","2","D","4","E","5","6","2","D","5","0",
           "6","1","7","2","7","4","6","9","7","4","6","9","6","F","6","E">>

\* the dict VALUES in insertion order, which is the order of VALUES.keys()
VALUES ==
    << [key |-> <<"5","3","5","7","5","6","4","5","5","2","5","3","4","9">>, name |-> <<"S","W","V","E","R","S","I">>],
       [key |-> <<"4","2","4","F","4","1","5","2","4","4","4","9","4","4">>, name |-> <<"B","O","A","R","D","I","D">>],
       [key |-> <<"5","3","4","E">>, name |-> <<"S","N">>],
       [key |-> <<"4","D","4","1","4","3","4","1","4","4","4","4","5","2">>, name |-> <<"M","A","C","A","D","D","R">>],
       [key |-> <<"4","D","4","4","4","1","5","4","4","5">>, name |-> <<"M","D","A","T","E">>],
       [key |-> <<"4","5","5","3","5","7","5","6","5","2">>, name |-> <<"E","S","W","V","R">>],
       [key |-> <<"4","9","5","3","5","7","5","6","5","2">>, name |-> <<"I","S","W","V","R">>],
       [key |-> <<"4","5","4","8","5","7","5","6","5","2">>, name |-> <<"E","H","W","V","R">>],
       [key |-> <<"4","9","4","8","5","7","5","6","5","2">>, name |-> <<"I","H","W","V","R">>],
       [key |-> <<"5","4","4","D","4","D","4","9">>, name |-> <<"T","M","M","I">>],
       [key |-> <<"4","D","4","1","4","3","5","7","4","C","4","1","4","E">>, name |-> <<"M","A","C","W","L","A","N">>],
       [key |-> <<"4","D","4","1","4","3","4","2","5","4">>, name |-> <<"M","A","C","B","T">>],
       [key |-> <<"5","7","5","6","4","C","4","F","4","3","4","B">>, name |-> <<"W","V","L","O","C","K">>],
       [key |-> <<"5","7","5","6","4","4","4","5","5","6","4","9","4","4">>, name |-> <<"W","V","D","E","V","I","D">>],
       [key |-> <<"4","8","4","9","4","D","4","E","5","4","4","E">>, name |-> <<"H","I","M","N","T","N">>],
       [key |-> <<"4","4","5","5","4","D","5","0","4","3","5","4","4","C">>, name |-> <<"D","U","M","P","C","T","L">>],
       [key |-> <<"4","6","5","2","5","0","4","B","4","5","5","9">>, name |-> <<"F","R","P","K","E","Y">>],
       [key |-> <<"5","3","5","0","4","B","5","F","5","0","4","1">>, name |-> <<"S","P","K","_","P","A">>],
       [key |-> <<"4","2","4","9","4","4","4","2","4","1","4","3","4","B">>, name |-> <<"B","I","D","B","A","C","K">>],
       [key |-> <<"5","4","5","0","4","3","4","F","4","C","4","F","5","2">>, name |-> <<"T","P","C","O","L","O","R">>] >>

\* the str "NULL" returned by parse_string
NULL == <<78, 85, 76, 76>>

-----------------------------------------------------------------------------
(* Python primitives used by the program                                   *)

Ok(v) == [exc |-> "none", val |-> v]

Raise(e) == [exc |-> e, val |-> <<>>]

MinOf(S) == CHOOSE x \in S : \A y \in S : x <= y

\* value of one hexadecimal digit, -1 for any other character
HexVal(c) ==
    CASE c = "0" -> 0  [] c = "1" -> 1  [] c = "2" -> 2  [] c = "3" -> 3
      [] c = "4" -> 4  [] c = "5" -> 5  [] c = "6" -> 6  [] c = "7" -> 7
      [] c = "8" -> 8  [] c = "9" -> 9
      [] c \in {"A", "a"} -> 10  [] c \in {"B", "b"} -> 11
      [] c \in {"C", "c"} -> 12  [] c \in {"D", "d"} -> 13
      [] c \in {"E", "e"} -> 14  [] c \in {"F", "f"} -> 15
      [] OTHER -> -1

\* bytes.fromhex(s): two digits per byte; ValueError on an odd length or a
\* character that is no hex digit
fromhex(s) ==
    IF Len(s) % 2 = 0 /\ \A i \in 1..Len(s) : HexVal(s[i]) >= 0
    THEN Ok([i \in 1..(Len(s) \div 2) |-> 16 * HexVal(s[2*i - 1]) + HexVal(s[2*i])])
    ELSE Raise("ValueError")

\* bytes.find(sub): the lowest offset at which sub occurs, -1 if it does not
find(d, sub) ==
    LET hits == { i \in 0..(Len(d) - Len(sub)) :
                    \A j \in 1..Len(sub) : d[i + j] = sub[j] }
    IN  IF hits = {} THEN -1 ELSE MinOf(hits)

\* bytes.decode('ascii'): UnicodeDecodeError on any byte above 127
decode_ascii(b) ==
    IF \A i \in 1..Len(b) : b[i] < 128 THEN Ok(b) ELSE Raise("UnicodeDecodeError")

IsAscii(x) == x < 128

\* bytes.decode('ascii', 'ignore'): the bytes above 127 are dropped; it never raises
decode_ascii_ignore(b) == Ok(SelectSeq(b, IsAscii))

\* re.search('[a-z0-9]', s, re.IGNORECASE) on a str of code points below 128
IsAlnum(c) == (c >= 48 /\ c <= 57) \/ (c >= 65 /\ c <= 90) \/ (c >= 97 /\ c <= 122)

re_search_alnum(s) == \E i \in 1..Len(s) : IsAlnum(s[i])

\* The file system: one image file, at ImgPath.
ImgPath == "nvme.img"

Unbound == "<unbound>"

FileExists(path) == path = ImgPath

\* fp.read(n) with the file position at pos: up to n bytes, fewer at end of file
fp_read(file, pos, n) ==
    IF pos >= Len(file) THEN <<>>
    ELSE SubSeq(file, pos + 1, IF pos + n <= Len(file) THEN pos + n ELSE Len(file))

-----------------------------------------------------------------------------
(* The functions of the program                                            *)

\* get_value_offset(data, value), value being a str: data.find(value) raises
\* TypeError, so the value is converted with bytes.fromhex and searched.
get_value_offset(d, value) ==
    IF Len(d) <= 0 THEN Raise("RuntimeError: Given data is too short!")
    ELSE LET b == fromhex(value)
         IN  IF b.exc = "ValueError"
             THEN Raise("RuntimeError: Could not determine the type of the given value!")
             ELSE Ok(find(d, b.val))

get_gap_num_Clamped(string) ==
    IF Len(string) > MAX_GAP THEN 0 ELSE MAX_GAP - Len(string)

get_gap_num(string) == MAX_GAP - Len(string)

parse_null_bytes_NoCheck(image) ==
    IF ~FileExists(image) THEN Raise("FileNotFoundError")
    ELSE get_value_offset(disk, MAGIC)

\* parse_null_bytes(image): the image file is read, MAGIC searched, and the
\* 17 bytes at the offset found compared with the literal.  fp.seek of a
\* negative position raises OSError (EINVAL).
parse_null_bytes(image) ==
    IF ~FileExists(image) THEN Raise("FileNotFoundError")
    ELSE LET off == get_value_offset(disk, MAGIC)
         IN  IF off.exc # "none" THEN off
             ELSE IF off.val < 0 THEN Raise("OSError: Invalid argument")
             ELSE IF fp_read(disk, off.val, HDR_LEN) # HDR_LITERAL
                  THEN Raise("RuntimeError: Expected MAGIC but got HDR")
                  ELSE Ok(off.val)

\* fp.seek(offset + buf + gap)
seek_position(offset, gap, buf) == offset + buf + gap

\* The try chain of parse_string with the file position at pos: 45 bytes are
\* read and decoded; when the strict decode raises, the next fp.read continues
\* at the position the first read left, and its bytes are decoded leniently.
\* The lenient decode never raises, so the third read is never made.
read_value(pos) ==
    LET first  == fp_read(disk, pos, STRING_LENGHT)
        strict == decode_ascii(first)
        second == fp_read(disk, pos + Len(first), STRING_LENGHT)
    IN  IF strict.exc = "none" THEN strict.val
        ELSE decode_ascii_ignore(second).val

filter_value_EmptyOnly(value) == IF value = <<>> THEN NULL ELSE value

\* "NULL" unless the value holds a letter or a digit
filter_value(value) ==
    IF ~re_search_alnum(value) \/ value = <<>> THEN NULL ELSE value

parse_string_NotFoundRaises(offset, gap, image, buf) ==
    IF ~FileExists(image) THEN Raise("FileNotFoundError")
    ELSE IF offset < 0 THEN Raise("RuntimeError: tag not found")
    ELSE Ok(filter_value(read_value(seek_position(offset, gap, buf))))

\* parse_string(offset, gap, image, buf); fp.seek of a negative position
\* raises OSError (EINVAL)
parse_string(offset, gap, image, buf) ==
    IF ~FileExists(image) THEN Raise("FileNotFoundError")
    ELSE IF seek_position(offset, gap, buf) < 0 THEN Raise("OSError: Invalid argument")
    ELSE Ok(filter_value(read_value(seek_position(offset, gap, buf))))

-----------------------------------------------------------------------------
(* Inputs: command lines and image files                                   *)

\* the longest command line, the program name not counted
MaxArgs == 3

\* the most null bytes ahead of the header
MaxPad == 1

\* the most bytes after the last record
MaxTail == 1

\* the longest string handed to get_gap_num directly
MaxNameLen == 24

ProgName == "nvme-huawei.py"

ArgTokens == {"-r", "-d", ImgPath}

Argvs == UNION { { <<ProgName>> \o a : a \in [1..n -> ArgTokens] } : n \in 0..MaxArgs }

Rep(c, n) == [i \in 1..n |-> c]

Zeros(n) == Rep(0, n)

\* v padded with null bytes, or truncated, to n bytes
PadTo(v, n) == IF Len(v) >= n THEN SubSeq(v, 1, n) ELSE v \o Zeros(n - Len(v))

TagBytes(k) == fromhex(VALUES[k].key).val

\* the name main() prints: bytes.fromhex(_VALUE_).decode('ascii')
DisplayName(k) == decode_ascii(TagBytes(k)).val

\* a record as the image format lays it out: the tag, null bytes up to
\* MAX_GAP characters, then the value in a field of STRING_LENGHT bytes
Record(k, v) ==
    TagBytes(k) \o Zeros(MAX_GAP - Len(DisplayName(k))) \o PadTo(v, STRING_LENGHT)

\* catalog entries that are given a record: SN, MACADDR, TMMI (2, 7 and 4 bytes)
RecordTags == {3, 4, 10}

Digits(n) == [i \in 1..n |-> 48 + (i % 10)]

A1B2C3D4 == <<65, 49, 66, 50, 67, 51, 68, 52>>

\* values with an alphanumeric character, all ASCII
AlnumValues == { A1B2C3D4, Digits(STRING_LENGHT), Digits(STRING_LENGHT + 2) }

\* the empty value, punctuation only ("-_:."), and a value with bytes above 127
Values == AlnumValues \cup { <<>>, <<45, 95, 58, 46>>, <<200, 65, 66, 233>> }

HeaderKinds == {"magic", "corrupt", "none"}

Header(h) ==
    CASE h = "magic"   -> HDR_LITERAL
      [] h = "corrupt" -> SubSeq(HDR_LITERAL, 1, HDR_LEN - 1) \o <<0>>
      [] h = "none"    -> <<>>

Trailer(n) == Rep(90, n)

\* an image with one record
OneRecordImage(pad, h, k, v, tl) == Zeros(pad) \o Header(h) \o Record(k, v) \o Trailer(tl)

\* an image without any record
NoRecordImage(pad, h, tl) == Zeros(pad) \o Header(h) \o Trailer(tl)

\* 'SN' at offset 1000, 18 null bytes, then 'A1B2C3D4' in a 45-byte field
ScenarioImage == HDR_LITERAL \o Zeros(1000 - HDR_LEN) \o Record(3, A1B2C3D4)

Images ==
    { OneRecordImage(pad, h, k, v, tl) :
        pad \in 0..MaxPad, h \in HeaderKinds, k \in RecordTags, v \in Values, tl \in 0..MaxTail }
    \cup { NoRecordImage(pad, h, tl) : pad \in 0..MaxPad, h \in HeaderKinds, tl \in 0..MaxTail }
    \cup { ScenarioImage }

NoCall == [exc |-> "nocall", val |-> <<>>]

-----------------------------------------------------------------------------
(* main()                                                                  *)

Line(kind) == [kind |-> kind]

show_help == <<Line("usage")>>

Init ==
    /\ argv \in Argvs
    /\ disk \in Images
    /\ pc = "start"
    /\ nvme = Unbound
    /\ data = <<>>
    /\ idx = 0
    /\ stdout = <<>>
    /\ err = "none"
    /\ seeks = <<>>
    /\ gapIn = <<>>
    /\ gapOut = NoCall

\* the banner, then "0- Parse program arguments": sys.argv[k] is argv[k + 1]
ParseArgs ==
    /\ pc = "start"
    /\ IF Len(argv) < 3
       THEN /\ stdout' = <<Line("banner"), Line("expected_more_arguments")>> \o show_help
            /\ pc' = "exit"
            /\ nvme' = nvme
       ELSE IF argv[2] = "-r"
       THEN /\ stdout' = <<Line("banner")>>
            /\ pc' = "open"
            /\ nvme' = IF Len(argv) = 4 THEN argv[4]
                       ELSE IF Len(argv) = 3 THEN argv[3]
                       ELSE Unbound
       ELSE /\ stdout' = <<Line("banner"), [kind |-> "unknown_option", option |-> argv[2]]>>
                            \o show_help
            /\ pc' = "done"
            /\ nvme' = nvme
    /\ UNCHANGED <<argv, disk, data, idx, err, seeks, gapIn, gapOut>>

\* "1- Open and read the data": open(_NVME_, "rb") and fp.read()
ReadImage ==
    /\ pc = "open"
    /\ IF nvme = Unbound
       THEN /\ pc' = "failed" /\ err' = "UnboundLocalError" /\ data' = data
       ELSE IF ~FileExists(nvme)
       THEN /\ pc' = "failed" /\ err' = "FileNotFoundError" /\ data' = data
       ELSE /\ pc' = "header" /\ err' = err /\ data' = disk
    /\ UNCHANGED <<argv, disk, nvme, idx, stdout, seeks, gapIn, gapOut>>

\* "2- Does the image has a valid header": parse_null_bytes(_NVME_), whose
\* result main() drops
CheckHeader ==
    /\ pc = "header"
    /\ LET r == parse_null_bytes(nvme)
       IN  IF r.exc # "none"
           THEN /\ pc' = "failed" /\ err' = r.exc /\ idx' = idx
           ELSE /\ pc' = "scan" /\ err' = err /\ idx' = 1
    /\ UNCHANGED <<argv, disk, nvme, data, stdout, seeks, gapIn, gapOut>>

\* the line main() prints for one entry (3.4)
RecordLine_DecodedLength(key, res, off) ==
    IF Len(argv) = 4 /\ argv[3] = "-d"
    THEN [kind |-> "record_debug", name |-> decode_ascii(fromhex(key).val).val,
          value |-> res, OFFSET |-> off, LENGHT |-> Len(fromhex(key).val)]
    ELSE [kind |-> "record", name |-> decode_ascii(fromhex(key).val).val, value |-> res]

RecordLine(key, res, off) ==
    IF Len(argv) = 4 /\ argv[3] = "-d"
    THEN [kind |-> "record_debug", name |-> decode_ascii(fromhex(key).val).val,
          value |-> res, OFFSET |-> off, LENGHT |-> Len(key)]
    ELSE [kind |-> "record", name |-> decode_ascii(fromhex(key).val).val, value |-> res]

\* one iteration of "3- Loop on the image to read all the values"
ScanEntry ==
    /\ pc = "scan"
    /\ idx <= Len(VALUES)
    /\ LET key == VALUES[idx].key
           off == get_value_offset(data, key)
           gap == get_gap_num(key)
           buf == Len(fromhex(key).val)
           res == parse_string(off.val, gap, nvme, buf)
       IN  IF off.exc # "none"
           THEN /\ pc' = "failed" /\ err' = off.exc /\ UNCHANGED <<idx, stdout, seeks>>
           ELSE IF res.exc # "none"
           THEN /\ pc' = "failed" /\ err' = res.exc /\ UNCHANGED <<idx, stdout, seeks>>
           ELSE /\ stdout' = Append(stdout, RecordLine(key, res.val, off.val))
                /\ seeks' = Append(seeks, seek_position(off.val, gap, buf))
                /\ idx' = idx + 1
                /\ UNCHANGED <<pc, err>>
    /\ UNCHANGED <<argv, disk, nvme, data, gapIn, gapOut>>

\* the loop is over: print("")
EndScan ==
    /\ pc = "scan"
    /\ idx > Len(VALUES)
    /\ stdout' = Append(stdout, Line("blank"))
    /\ pc' = "done"
    /\ UNCHANGED <<argv, disk, nvme, data, idx, err, seeks, gapIn, gapOut>>

\* A direct call of get_gap_num(gapIn)
GapStrings ==
    { Rep(c, n) : c \in {"A", "5", "_"}, n \in 0..MaxNameLen }
    \cup { VALUES[k].key : k \in 1..Len(VALUES) }
    \cup { VALUES[k].name : k \in 1..Len(VALUES) }

InitGap ==
    /\ argv = <<ProgName>>
    /\ disk = <<>>
    /\ pc = "call"
    /\ nvme = Unbound
    /\ data = <<>>
    /\ idx = 0
    /\ stdout = <<>>
    /\ err = "none"
    /\ seeks = <<>>
    /\ gapIn \in GapStrings
    /\ gapOut = NoCall

CallGap ==
    /\ pc = "call"
    /\ gapOut' = Ok(get_gap_num(gapIn))
    /\ pc' = "returned"
    /\ UNCHANGED <<argv, disk, nvme, data, idx, stdout, err, seeks, gapIn>>

NextGap == CallGap

SpecGap == InitGap /\ [][NextGap]_vars

Next == ParseArgs \/ ReadImage \/ CheckHeader \/ ScanEntry \/ EndScan

Spec == Init /\ [][Next]_vars

-----------------------------------------------------------------------------
(* Properties                                                              *)

IsRecordLine(l) == l.kind \in {"record", "record_debug"}

\* the record lines printed so far, in print order
Records == SelectSeq(stdout, IsRecordLine)

HasMagic(img) == find(img, HDR_LITERAL) >= 0

\* where entry i's tag bytes first occur in the image buffer, -1 if nowhere
TagOffset(i) == find(data, TagBytes(i))

\* the known value as its 45-byte field can hold it
Known(v) == IF Len(v) > STRING_LENGHT THEN SubSeq(v, 1, STRING_LENGHT) ELSE v

\* the 45 bytes (fewer at end of file) at the position sought for entry i
Window(i) == fp_read(disk, seeks[i], STRING_LENGHT)

\* the run was a read of the image file ("-r" with a path that exists)
ReadRun == Len(argv) >= 3 /\ argv[2] = "-r" /\ nvme = ImgPath

\* C1: round trip.  When the image holds a valid header and a single record
\* (tag, 20 - len(name) null bytes, a known ASCII value with a letter or digit
\* in a 45-byte field), the finished scan prints for that entry exactly the
\* known value; 'SN' at offset 1000 with 'A1B2C3D4' prints SN = A1B2C3D4.
C1_RoundTrip ==
    (pc = "done" /\ Len(Records) = Len(VALUES)) =>
        /\ \A pad \in 0..MaxPad, k \in RecordTags, v \in AlnumValues, tl \in 0..MaxTail :
              disk = OneRecordImage(pad, "magic", k, v, tl) => Records[k].value = Known(v)
        /\ disk = ScenarioImage =>
              Records[3].name = <<83, 78>> /\ Records[3].value = A1B2C3D4

\* C2: an entry whose tag bytes occur nowhere in the image is printed as a
\* line marked "tag not found", and the not-found result (-1) is never used
\* as an offset in the seek arithmetic.
C2_AbsentTagMarked ==
    \A i \in 1..Len(Records) :
        TagOffset(i) < 0 =>
            /\ Records[i].kind = "tag_not_found"
            /\ seeks[i] # seek_position(-1, get_gap_num(VALUES[i].key), Len(TagBytes(i)))

\* C3: for an entry found at tag_offset, the value is read at tag_offset + L +
\* gap with gap = MAX_GAP - len(display name), that is at tag_offset + 20.
C3_ValueAtTagPlus20 ==
    \A i \in 1..Len(seeks) :
        TagOffset(i) >= 0 =>
            /\ seeks[i] = TagOffset(i) + Len(TagBytes(i)) + (MAX_GAP - Len(DisplayName(i)))
            /\ seeks[i] = TagOffset(i) + MAX_GAP

\* the diagnostic parse_null_bytes raises itself
HeaderDiagnostics == {"RuntimeError: Expected MAGIC but got HDR"}

\* C4: header validation of a non-empty image ends in one of three ways: a
\* header diagnostic (not found, or mismatch with the expected and actual
\* bytes) or the offset of the first occurrence of the magic.
C4_HeaderOutcomes ==
    /\ (pc = "failed" /\ data # <<>>) => err \in HeaderDiagnostics
    /\ pc = "scan" => parse_null_bytes(nvme) = Ok(find(data, HDR_LITERAL))

\* C5: no record is printed before the header has been validated; a run on a
\* zero-length image (refused before any search) or on an image without the
\* magic ends with an uncaught error and no record.
C5_NoRecordBeforeHeader ==
    /\ Records # <<>> => (pc \in {"scan", "done"} /\ data # <<>> /\ HasMagic(data))
    /\ (ReadRun /\ pc \in {"scan", "done", "failed"} /\ (disk = <<>> \/ ~HasMagic(disk))) =>
          /\ pc = "failed"
          /\ err # "none"
          /\ Records = <<>>
          /\ disk = <<>> => err = "RuntimeError: Given data is too short!"

\* a run on a non-empty image without the magic has failed, with no record
C5_Witness ==
    /\ ReadRun /\ pc = "failed"
    /\ disk # <<>> /\ ~HasMagic(disk)
    /\ Records = <<>>

\* C6: once the header validates, the scan prints one line per catalog entry,
\* in catalog order, and never stops before the last entry, whatever the
\* image holds.
C6_OneLinePerEntry ==
    /\ \A i \in 1..Len(Records) : Records[i].name = DisplayName(i)
    /\ pc = "scan" => (Len(Records) = idx - 1 /\ idx <= Len(VALUES) + 1)
    /\ (pc = "done" /\ ReadRun) => Len(Records) = Len(VALUES)
    /\ pc = "failed" => (Records = <<>> /\ (~ReadRun \/ data = <<>> \/ ~HasMagic(data)))

\* a finished scan of an image with an absent tag whose window lies past the
\* end of the image
C6_Witness ==
    /\ pc = "done" /\ Len(Records) = Len(VALUES)
    /\ \E i \in 1..Len(seeks) : TagOffset(i) < 0 /\ seeks[i] >= Len(disk)

\* the value main() gets for entry i
ScanValue(i) ==
    parse_string(TagOffset(i), get_gap_num(VALUES[i].key), ImgPath, Len(TagBytes(i))).val

\* C7 as stated: "-d -r <path>" runs the scan and prints the debug lines.
C7_DebugFirst ==
    (argv = <<ProgName, "-d", "-r", ImgPath>> /\ pc # "start") =>
        /\ \A n \in 1..Len(stdout) : stdout[n].kind # "unknown_option"
        /\ pc = "done" => (Len(Records) = Len(VALUES)
                           /\ \A i \in 1..Len(Records) : Records[i].kind = "record_debug")

\* C7, amended: "-r -d <path>" runs the scan of "-r <path>" and prints each
\* record line with the tag offset and the length of the hex-encoded tag;
\* given two arguments or more, a first argument other than "-r" ("-d"
\* included) prints the unknown-option message and the usage, and scans nothing.
C7_DebugSecond ==
    /\ (Len(argv) >= 3 /\ argv[2] # "-r" /\ pc # "start") =>
          /\ pc = "done"
          /\ stdout = <<Line("banner"), [kind |-> "unknown_option", option |-> argv[2]],
                        Line("usage")>>
          /\ seeks = <<>>
    /\ argv = <<ProgName, "-r", "-d", ImgPath>> =>
          /\ pc = "done" => Len(Records) = Len(VALUES)
          /\ \A i \in 1..Len(Records) :
                Records[i] = [kind |-> "record_debug", name |-> DisplayName(i),
                              value |-> ScanValue(i), OFFSET |-> TagOffset(i),
                              LENGHT |-> 2 * Len(TagBytes(i))]
    /\ argv = <<ProgName, "-r", ImgPath>> =>
          /\ pc = "done" => Len(Records) = Len(VALUES)
          /\ \A i \in 1..Len(Records) :
                Records[i] = [kind |-> "record", name |-> DisplayName(i),
                              value |-> ScanValue(i)]

\* a finished "-r -d <path>" scan with a tag found
C7_Witness ==
    /\ argv = <<ProgName, "-r", "-d", ImgPath>>
    /\ pc = "done" /\ Len(Records) = Len(VALUES)
    /\ \E i \in 1..Len(Records) :
          Records[i].kind = "record_debug" /\ Records[i].OFFSET >= 0

C9_NullSentinel ==
    \A i \in 1..Len(Records) :
        (\A j \in 1..Len(Window(i)) : Window(i)[j] < 128 /\ ~IsAlnum(Window(i)[j]))
            => Records[i].value = NULL

\* a field with punctuation in it has been printed as NULL
C9_Witness ==
    \E i \in 1..Len(Records) :
        /\ \A j \in 1..Len(Window(i)) : Window(i)[j] < 128 /\ ~IsAlnum(Window(i)[j])
        /\ \E j \in 1..Len(Window(i)) : Window(i)[j] # 0
        /\ Records[i].value = NULL

\* the decode chain applied to one window: strict ASCII, else lenient ASCII
DecodeWindow(w) ==
    IF decode_ascii(w).exc = "none" THEN decode_ascii(w).val ELSE decode_ascii_ignore(w).val

\* C10: the value printed for an entry whose tag was found is a function of
\* the 45 bytes at the position sought, every step of the decode chain being
\* applied to them.
C10_SameWindow ==
    \A i \in 1..Len(Records) :
        TagOffset(i) >= 0 => Records[i].value = filter_value(DecodeWindow(Window(i)))

=============================================================================
